---- MODULE Spec2Model ----
(***************************************************************************)
(* Model of garbage_collector/mark_and_sweep.c: a K&R-style free-list      *)
(* allocator (gc_malloc, more_core, add_to_free_list) with a conservative  *)
(* mark-and-sweep collector (scan_region, scan_heap, gc_collect).          *)
(*                                                                         *)
(* Memory is a flat store of 8-byte words addressed by byte address.  A    *)
(* header_t at address h is the word at h (size, in header-sized units)    *)
(* and the word at h + 8 (next, whose low bit is the mark).  Words that    *)
(* were never written read as 0 (sbrk hands out zero-filled pages), and    *)
(* the store keeps only the non-zero words.                                *)
(***************************************************************************)
EXTENDS Integers, Sequences, FiniteSets, TLC

(* ---------------------------- layout ---------------------------------- *)

NULL == 0

\* sizeof(header_t): unsigned int size (padded to 8) + struct header *next
HDR == 16

\* sizeof(long): the scanners step through memory one long at a time
WORD == 8

MIN_ALLOC_SIZE == 4096

\* &base: the sentinel lives in the data segment, below the heap
BASE == 16

\* the program break before the first sbrk call
HEAP_START == 4096

(* ---------------------------- bounds ---------------------------------- *)

\* number of successful sbrk calls the OS grants before it refuses
MaxArenas == 2

\* gc_malloc calls in a run
MaxMallocs == 3

\* stores of the program into its globals and blocks in a run
MaxStores == 3

\* words of the data segment other than base, freep and usedp
NRoots == 1

\* width of size_t in the model: arithmetic on request sizes wraps at 2^SizeBits
SizeBits == 16

SIZE_MOD == 2 ^ SizeBits

\* byte counts passed to gc_malloc (main passes 16, 4080 and 32)
AllocSizes == {16, 32, 4080}

\* distance by which another user of the program break may have moved it
\* before more_core calls sbrk (0: the new region is contiguous)
Gaps == {0, MIN_ALLOC_SIZE}

\* &etext modulo 8: 0 in a build where the text happens to end on a word
\* boundary, 1 where it ends one byte after one
EtextOffsets == {0, 1}

\* requests of one unit, of more than MIN_ALLOC_SIZE, and of the two sizes at
\* the top of size_t where the computation of num_units, respectively of
\* num_units * sizeof(header_t), wraps
WideSizes == {16, MIN_ALLOC_SIZE, SIZE_MOD - HDR, SIZE_MOD - 1}

(* ---------------------------- memory ---------------------------------- *)

Rd(m, a) == IF a \in DOMAIN m THEN m[a] ELSE 0

Wr(m, a, v) ==
    [x \in (IF v = 0 THEN DOMAIN m \ {a} ELSE DOMAIN m \cup {a}) |->
        IF x = a THEN v ELSE m[x]]

\* p->size and p->next
SizeOf(m, p) == Rd(m, p)
NextOf(m, p) == Rd(m, p + WORD)

\* UNTAG(p): (long) p & 0xfffffffffffffffc
UNTAG(v) == v - (v % 4)

\* (long) p->next & 1
Tagged(v) == v % 2 = 1

\* faulty variant of SetTag: the mark is added, not or-ed in
SetTagAdds(v) == v + 1

\* (long) p->next | 1
SetTag(v) == IF v % 2 = 1 THEN v ELSE v + 1

\* faulty variant of ClearTag: the mark is left as it is
ClearTagKeeps(v) == v

\* (long) p->next & ~1
ClearTag(v) == v - (v % 2)

\* p + n for a header_t *p
Plus(p, n) == p + n * HDR

(* ------------------------ add_to_free_list ---------------------------- *)

\* the for loop: the free block right before bp, searching from p
RECURSIVE FindPrev(_, _, _)
FindPrev(m, p, bp) ==
    LET pn == NextOf(m, p) IN
    IF bp > p /\ bp < pn THEN p
    ELSE IF p >= pn /\ (bp > p \/ bp < pn) THEN p
    ELSE FindPrev(m, pn, bp)

\* faulty variant of ForwardCoalesce: bp is never merged with p->next
ForwardCoalesceNever(m, p, bp) == Wr(m, bp + WORD, NextOf(m, p))

\* forward coalescence of bp with p->next
ForwardCoalesce(m, p, bp) ==
    LET pn == NextOf(m, p) IN
    IF Plus(bp, SizeOf(m, bp)) = pn
    THEN Wr(Wr(m, bp, SizeOf(m, bp) + SizeOf(m, pn)), bp + WORD, NextOf(m, pn))
    ELSE Wr(m, bp + WORD, pn)

\* faulty variant of BackwardCoalesce: p is never merged with bp
BackwardCoalesceNever(m, p, bp) == Wr(m, p + WORD, bp)

\* faulty variant of BackwardCoalesce: p->size = bp->size for p->size += bp->size
BackwardCoalesceAssign(m, p, bp) ==
    IF Plus(p, SizeOf(m, p)) = bp
    THEN Wr(Wr(m, p, SizeOf(m, bp)), p + WORD, NextOf(m, bp))
    ELSE Wr(m, p + WORD, bp)

\* backward coalescence of p with bp
BackwardCoalesce(m, p, bp) ==
    IF Plus(p, SizeOf(m, p)) = bp
    THEN Wr(Wr(m, p, SizeOf(m, p) + SizeOf(m, bp)), p + WORD, NextOf(m, bp))
    ELSE Wr(m, p + WORD, bp)

\* faulty variant of add_to_free_list: the cursor is left on bp, not on p
add_to_free_listCursorOnBlock(s, bp) ==
    LET p  == FindPrev(s.mem, s.freep, bp)
        m1 == ForwardCoalesce(s.mem, p, bp)
        m2 == BackwardCoalesce(m1, p, bp)
    IN  [s EXCEPT !.mem = m2, !.freep = bp]

\* s is the record of the globals: mem, freep, usedp (and the break)
add_to_free_list(s, bp) ==
    LET p  == FindPrev(s.mem, s.freep, bp)
        m1 == ForwardCoalesce(s.mem, p, bp)
        m2 == BackwardCoalesce(m1, p, bp)
    IN  [s EXCEPT !.mem = m2, !.freep = p]

(* ----------------------------- more_core ------------------------------ *)

\* sbrk(num_bytes): the old break, or -1 when the OS refuses.  Since the
\* last call of more_core another user of the break may have moved it by
\* sb.gap (before the first call there is no earlier region to be apart from)
sbrk(s, num_bytes, sb) ==
    IF sb.ok /\ Cardinality(s.arenas) < MaxArenas
    THEN s.brk + (IF s.arenas = {} THEN 0 ELSE sb.gap)
    ELSE -1

more_core(s, num_bytes, sb) ==
    LET nb == IF num_bytes < MIN_ALLOC_SIZE THEN MIN_ALLOC_SIZE ELSE num_bytes
        vp == sbrk(s, nb, sb)
    IN  IF vp = -1
        THEN [s EXCEPT !.rv = NULL, !.calls = @ + 1]
        ELSE LET s1 == [s EXCEPT !.brk = vp + nb,
                                 !.arenas = @ \cup {<<vp, nb>>},
                                 !.calls = @ + 1,
                                 !.mem = Wr(@, vp, nb \div HDR)]
                 s2 == add_to_free_list(s1, vp)
             IN  [s2 EXCEPT !.rv = s2.freep]

(* ----------------------------- gc_malloc ------------------------------ *)

\* faulty variant of NumUnits: no unit is added for the header
NumUnitsNoHeader(alloc_size) ==
    ((alloc_size + HDR - 1) % SIZE_MOD) \div HDR

\* (alloc_size + sizeof(header_t) - 1) / sizeof(header_t) + 1, in size_t
NumUnits(alloc_size) ==
    ((((alloc_size + HDR - 1) % SIZE_MOD) \div HDR) + 1) % SIZE_MOD

\* faulty variant of TakeBlock: the split leaves p->size as it was
TakeBlockNoShrink(m, prevp, p, num_units) ==
    IF SizeOf(m, p) = num_units
    THEN <<Wr(m, prevp + WORD, NextOf(m, p)), p>>
    ELSE LET q == Plus(p, SizeOf(m, p) - num_units)
         IN  <<Wr(m, q, num_units), q>>

\* faulty variant of TakeBlock: the split hands out the front of p and
\* leaves the tail on the free list
TakeBlockFront(m, prevp, p, num_units) ==
    IF SizeOf(m, p) = num_units
    THEN <<Wr(m, prevp + WORD, NextOf(m, p)), p>>
    ELSE LET rest == SizeOf(m, p) - num_units
             r    == Plus(p, num_units)
             m1   == Wr(Wr(m, r, rest), r + WORD, NextOf(m, p))
         IN  <<Wr(Wr(m1, prevp + WORD, r), p, num_units), p>>

\* lines 98-104: unlink p (exact size) or carve the tail off p;
\* <<memory, allocated block>>
TakeBlock(m, prevp, p, num_units) ==
    IF SizeOf(m, p) = num_units
    THEN <<Wr(m, prevp + WORD, NextOf(m, p)), p>>
    ELSE LET rest == SizeOf(m, p) - num_units
             q    == Plus(p, rest)
         IN  <<Wr(Wr(m, p, rest), q, num_units), q>>

\* lines 109-113: add p to the used list; <<memory, usedp>>
AddToUsed(m, usedp, p) ==
    IF usedp = NULL
    THEN <<Wr(m, p + WORD, p), p>>
    ELSE <<Wr(Wr(m, p + WORD, NextOf(m, usedp)), usedp + WORD, p), usedp>>

\* the for loop of gc_malloc, at the test of p
RECURSIVE MallocLoop(_, _, _, _, _)
MallocLoop(s, prevp, p, num_units, sb) ==
    IF SizeOf(s.mem, p) >= num_units
    THEN LET t == TakeBlock(s.mem, prevp, p, num_units)
             u == AddToUsed(t[1], s.usedp, t[2])
         IN  [s EXCEPT !.mem = u[1], !.freep = prevp, !.usedp = u[2],
                       !.rv = t[2] + HDR]
    ELSE IF p = s.freep
    THEN LET s1 == more_core(s, (num_units * HDR) % SIZE_MOD, sb) IN
         IF s1.rv = NULL THEN s1
         ELSE MallocLoop(s1, s1.rv, NextOf(s1.mem, s1.rv), num_units, sb)
    ELSE MallocLoop(s, p, NextOf(s.mem, p), num_units, sb)

\* faulty variant of gc_malloc: first fit, the search starts at base
gc_mallocFromBase(s, alloc_size, sb) ==
    LET num_units == NumUnits(alloc_size)
        prevp     == BASE
    IN  MallocLoop(s, prevp, NextOf(s.mem, prevp), num_units, sb)

gc_malloc(s, alloc_size, sb) ==
    LET num_units == NumUnits(alloc_size)
        prevp     == s.freep
    IN  MallocLoop(s, prevp, NextOf(s.mem, prevp), num_units, sb)

(* ----------------------------- scan_region ---------------------------- *)

\* faulty variant of InPayload: the range starts at the header, not after it
InPayloadFromHeader(m, h, ptr) == h <= ptr /\ Plus(h, SizeOf(m, h)) > ptr

\* curr_used + 1 <= ptr < curr_used + curr_used->size
InPayload(m, h, ptr) == h + HDR <= ptr /\ Plus(h, SizeOf(m, h)) > ptr

MarkHeader(m, h) == Wr(m, h + WORD, SetTag(NextOf(m, h)))

\* the do-while over the used list for one candidate word
RECURSIVE RegionWalk(_, _, _, _)
RegionWalk(m, usedp, curr_used, ptr) ==
    IF InPayload(m, curr_used, ptr) THEN MarkHeader(m, curr_used)
    ELSE LET nx == UNTAG(NextOf(m, curr_used)) IN
         IF nx # usedp THEN RegionWalk(m, usedp, nx, ptr) ELSE m

\* the for loop over the words of the region, given as a sequence
RECURSIVE scan_region(_, _, _, _)
scan_region(m, usedp, words, i) ==
    IF i > Len(words) THEN m
    ELSE scan_region(RegionWalk(m, usedp, usedp, words[i]), usedp, words, i + 1)

(* ----------------------------- scan_heap ------------------------------ *)

\* the inner do-while: the block whose header the loop marks for the word
\* ptr, testing every block but curr_used; NULL when it marks none
RECURSIVE HeapWalk(_, _, _, _)
HeapWalk(m, curr_used, up, ptr) ==
    IF up # curr_used /\ InPayload(m, up, ptr) THEN up
    ELSE LET nx == UNTAG(NextOf(m, up)) IN
         IF nx # curr_used THEN HeapWalk(m, curr_used, nx, ptr) ELSE NULL

\* the addresses mem_block takes: curr_used + 1 up to curr_used + curr_used->size
PayloadWords(m, h) ==
    {h + HDR + k * WORD : k \in 0..((SizeOf(m, h) - 1) * (HDR \div WORD) - 1)}

RECURSIVE MarkAll(_, _)
MarkAll(m, T) ==
    IF T = {} THEN m
    ELSE LET h == CHOOSE x \in T : TRUE IN MarkAll(MarkHeader(m, h), T \ {h})

\* the for loop over the payload words of a marked block.  Setting a mark
\* changes no size, no untagged link and no payload word, so the block
\* marked for one word does not depend on the words scanned before it: the
\* loop sets the marks of the blocks found for the words, in any order.
ScanPayload(m, curr_used) ==
    MarkAll(m, {HeapWalk(m, curr_used, UNTAG(NextOf(m, curr_used)), Rd(m, a)) :
                    a \in PayloadWords(m, curr_used)} \ {NULL})

\* the outer do-while: one pass over the used list, from usedp
RECURSIVE HeapPass(_, _, _)
HeapPass(m, usedp, curr_used) ==
    LET m1 == IF Tagged(NextOf(m, curr_used))
              THEN ScanPayload(m, curr_used)
              ELSE m
        nx == UNTAG(NextOf(m1, curr_used))
    IN  IF nx # usedp THEN HeapPass(m1, usedp, nx) ELSE m1

scan_heap(m, usedp) == HeapPass(m, usedp, usedp)

(* ----------------------------- gc_collect ----------------------------- *)

\* the blocks on the used list, following untagged links from usedp
RECURSIVE UsedFrom(_, _, _)
UsedFrom(m, h, acc) ==
    IF h = NULL \/ h \in acc THEN acc
    ELSE UsedFrom(m, UNTAG(NextOf(m, h)), acc \cup {h})

UsedBlocks(m, up) == UsedFrom(m, up, {})

\* faulty variant of Sweep: the label next_chunk stands after the test of the
\* mark, so the block that follows a freed block is kept without being tested
RECURSIVE SweepLabelAfterTest(_, _, _, _)
SweepLabelAfterTest(s, prevp, p, test) ==
    IF test /\ ~Tagged(NextOf(s.mem, p))
    THEN LET tp == p
             np == UNTAG(NextOf(s.mem, p))
             s1 == [add_to_free_list(s, tp) EXCEPT !.swept = @ \cup {tp}]
         IN  IF s1.usedp = tp
             THEN [s1 EXCEPT !.usedp = NULL]
             ELSE LET tag == NextOf(s1.mem, prevp) % 2
                      s2  == [s1 EXCEPT !.mem = Wr(@, prevp + WORD, np + tag)]
                  IN  SweepLabelAfterTest(s2, prevp, np, FALSE)
    ELSE LET s1 == [s EXCEPT !.mem = Wr(@, p + WORD, ClearTag(NextOf(s.mem, p)))]
         IN  IF p = s1.usedp THEN s1
             ELSE SweepLabelAfterTest(s1, p, UNTAG(NextOf(s1.mem, p)), TRUE)

SweepSkipping(s, prevp, p) == SweepLabelAfterTest(s, prevp, p, TRUE)

\* faulty variant of Sweep: the test "usedp == tp" of the freed block is
\* missing, so the loop goes on past the head it has just freed
RECURSIVE SweepNoHeadTest(_, _, _)
SweepNoHeadTest(s0, prevp, p) ==
    LET s == [s0 EXCEPT !.steps = @ + 1] IN
    IF s.steps > s.fuel THEN s
    ELSE IF ~Tagged(NextOf(s.mem, p))
    THEN LET tp == p
             np == UNTAG(NextOf(s.mem, p))
             s1 == [add_to_free_list(s, tp) EXCEPT !.swept = @ \cup {tp}]
             tag == NextOf(s1.mem, prevp) % 2
             s2  == [s1 EXCEPT !.mem = Wr(@, prevp + WORD, np + tag)]
         IN  SweepNoHeadTest(s2, prevp, np)
    ELSE LET s1 == [s EXCEPT !.mem = Wr(@, p + WORD, ClearTag(NextOf(s.mem, p)))]
         IN  IF p = s1.usedp THEN s1
             ELSE SweepNoHeadTest(s1, p, UNTAG(NextOf(s1.mem, p)))

\* the collection loop, at label next_chunk; s.swept collects the blocks
\* handed to add_to_free_list and s.steps counts the passes through the
\* label. The walk is cut off once it has made more passes than s.fuel, the
\* number of blocks the used list had, so that a loop that fails to end is
\* a value of s.steps and not an evaluation without end
RECURSIVE Sweep(_, _, _)
Sweep(s0, prevp, p) ==
    LET s == [s0 EXCEPT !.steps = @ + 1] IN
    IF s.steps > s.fuel THEN s
    ELSE IF ~Tagged(NextOf(s.mem, p))
    THEN LET tp == p
             np == UNTAG(NextOf(s.mem, p))
             s1 == [add_to_free_list(s, tp) EXCEPT !.swept = @ \cup {tp}]
         IN  IF s1.usedp = tp
             THEN [s1 EXCEPT !.usedp = NULL]
             ELSE LET tag == NextOf(s1.mem, prevp) % 2
                      s2  == [s1 EXCEPT !.mem = Wr(@, prevp + WORD, np + tag)]
                  IN  Sweep(s2, prevp, np)
    ELSE LET s1 == [s EXCEPT !.mem = Wr(@, p + WORD, ClearTag(NextOf(s.mem, p)))]
         IN  IF p = s1.usedp THEN s1
             ELSE Sweep(s1, p, UNTAG(NextOf(s1.mem, p)))

\* the words between etext and end: base, freep, usedp and the other globals
DataWords(s, rts) ==
    <<SizeOf(s.mem, BASE), NextOf(s.mem, BASE), s.freep, s.usedp>> \o rts

\* a value whose top bytes are not zero: it is beyond every address of the
\* heap, whichever way it is compared as a long
BeyondHeap == -1

\* the long read k bytes into the word w1 that w2 follows (little endian):
\* the upper 8 - k bytes of w1, and above them the lower k bytes of w2
Straddle(w1, w2, k) ==
    IF k = 0 THEN w1
    ELSE IF w2 % (2 ^ (8 * k)) = 0 THEN w1 \div (2 ^ (8 * k))
    ELSE BeyondHeap

\* the longs scan_region reads from (long *) &etext on: the words of the
\* data segment when &etext is a multiple of 8, and otherwise longs that
\* lie across two of them (the last one across the word at &end)
ScannedWords(s, rts) ==
    LET W == DataWords(s, rts) IN
    [i \in 1..Len(W) |->
        Straddle(W[i], IF i < Len(W) THEN W[i + 1] ELSE 0, s.etext)]

\* the memory when the marking phases are done (scan_region, scan_heap)
MarkPhase(s, rts) ==
    scan_heap(scan_region(s.mem, s.usedp, ScannedWords(s, rts), 1), s.usedp)

gc_collect(s, rts) ==
    IF s.usedp = NULL THEN s
    ELSE LET s1 == [s EXCEPT !.mem = MarkPhase(s, rts),
                             !.fuel = Cardinality(UsedBlocks(s.mem, s.usedp))]
         IN  Sweep(s1, s1.usedp, UNTAG(NextOf(s1.mem, s1.usedp)))

(* ------------------------- reading the heap --------------------------- *)

\* the nodes of the free list in list order, from the sentinel
RECURSIVE FreeFrom(_, _, _)
FreeFrom(m, h, acc) ==
    IF h \in {acc[i] : i \in 1..Len(acc)} THEN acc
    ELSE FreeFrom(m, NextOf(m, h), Append(acc, h))

FreeNodes(m) == FreeFrom(m, BASE, <<>>)

FreeSet(m) == {FreeNodes(m)[i] : i \in 1..Len(FreeNodes(m))}

RECURSIVE SumSizes(_, _)
SumSizes(m, S) ==
    IF S = {} THEN 0
    ELSE LET h == CHOOSE x \in S : TRUE IN SizeOf(m, h) + SumSizes(m, S \ {h})

\* total free capacity and total allocated units
FreeUnits(m) == SumSizes(m, FreeSet(m))
UsedUnits(m, up) == SumSizes(m, UsedBlocks(m, up))

RECURSIVE SumArenas(_)
SumArenas(A) ==
    IF A = {} THEN 0
    ELSE LET a == CHOOSE x \in A : TRUE IN a[2] \div HDR + SumArenas(A \ {a})

\* the value v is an address inside the payload of block h
PointsInto(m, h, v) == v >= h + HDR /\ v < h + SizeOf(m, h) * HDR

\* blocks of U whose payload holds one of the words
RootReferenced(m, U, words) ==
    {h \in U : \E i \in 1..Len(words) : PointsInto(m, h, words[i])}

\* blocks of U other than c to which a payload word of c refers
Referenced(m, U, c) ==
    {h \in U \ {c} :
        \E a \in DOMAIN m :
            /\ PointsInto(m, c, a)
            /\ PointsInto(m, h, m[a])}

RECURSIVE Closure(_, _, _)
Closure(m, U, R) ==
    LET R2 == R \cup UNION {Referenced(m, U, c) : c \in R} IN
    IF R2 = R THEN R ELSE Closure(m, U, R2)

\* the used blocks reachable from the data segment
Reachable(s, rts) ==
    LET U == UsedBlocks(s.mem, s.usedp) IN
    Closure(s.mem, U, RootReferenced(s.mem, U, DataWords(s, rts)))

\* the used blocks whose mark is set
MarkedBlocks(m, up) == {h \in UsedBlocks(m, up) : Tagged(NextOf(m, h))}

(* ------------------------------ state --------------------------------- *)

VARIABLES
    mem,      \* the words of the data segment's base and of the heap
    freep,    \* the free-list cursor
    usedp,    \* the head of the used list, or NULL
    brk,      \* the program break
    arenas,   \* the regions obtained from sbrk, as <<start, bytes>>
    roots,    \* the other words between etext and end
    etext,    \* &etext modulo the size of a long, fixed when the program is linked
    op,       \* the last call: "start", "initialize", "malloc", "collect", "store"
    ret,      \* what the last gc_malloc returned
    units,    \* num_units of the last gc_malloc
    calls,    \* calls of more_core made by the last gc_malloc
    preFree,  \* total free capacity when the last gc_malloc was entered
    pre,      \* <<block, size>> of the used list when the last gc_collect was entered
    live,     \* blocks reachable when the last gc_collect was entered
    marked,   \* blocks marked when its collection loop started
    swept,    \* blocks its collection loop handed to add_to_free_list
    consec,   \* gc_collect calls in a row, up to 2
    req,      \* alloc_size of the last gc_malloc
    near,     \* blocks at most two references from the data segment when the
              \* last gc_collect was entered
    iters,    \* passes of its collection loop through next_chunk
    mainpc,   \* statements of main executed so far, -1 once the calls differ from main's
    mallocs,  \* gc_malloc calls so far
    stores,   \* stores so far
    mainlog   \* <<more_core calls, return value>> of main's gc_malloc calls so far

heap == <<mem, freep, usedp, brk, arenas>>
hist == <<op, ret, units, calls, preFree, pre, live, marked, swept, consec,
          req, near, iters>>
vars == <<mem, freep, usedp, brk, arenas, roots, etext, op, ret, units, calls, preFree,
          pre, live, marked, swept, consec, req, near, iters, mainpc, mallocs,
          stores, mainlog>>

\* the globals as the record the operators work on
Globals ==
    [mem |-> mem, freep |-> freep, usedp |-> usedp, brk |-> brk,
     arenas |-> arenas, rv |-> NULL, calls |-> 0, swept |-> {},
     steps |-> 0, fuel |-> 0, etext |-> etext]

SbrkOutcomes == [ok : BOOLEAN, gap : Gaps]

\* main: initialize(); gc_malloc(16); gc_malloc(4080); gc_malloc(32); gc_collect()
MainArgs == <<16, 4080, 32>>

\* static header_t base = {0, &base}; freep = &base; usedp = NULL
InitProgram ==
    /\ mem = (BASE + WORD :> BASE)
    /\ freep = BASE
    /\ usedp = NULL
    /\ brk = HEAP_START
    /\ arenas = {}
    /\ roots = [i \in 1..NRoots |-> 0]
    /\ op = "start"
    /\ ret = NULL /\ units = 0 /\ calls = 0 /\ preFree = 0
    /\ pre = {} /\ live = {} /\ marked = {} /\ swept = {}
    /\ consec = 0
    /\ req = 0 /\ near = {} /\ iters = 0
    /\ mainpc = 0
    /\ mainlog = <<>>
    /\ mallocs = 0
    /\ stores = 0

\* a build in which &etext is word-aligned, as scan_region asks
Init == InitProgram /\ etext = 0

\* any build: the linker puts etext where the text ends
InitBuild == InitProgram /\ etext \in EtextOffsets

Install(s) ==
    /\ mem' = s.mem
    /\ freep' = s.freep
    /\ usedp' = s.usedp
    /\ brk' = s.brk
    /\ arenas' = s.arenas

NoCollectHistory ==
    /\ pre' = {} /\ live' = {} /\ marked' = {} /\ swept' = {} /\ consec' = 0
    /\ near' = {} /\ iters' = 0

\* initialize(): more_core(MIN_ALLOC_SIZE), main's first statement
Initialize ==
    /\ op = "start"
    /\ \E sb \in SbrkOutcomes :
          LET s == more_core(Globals, MIN_ALLOC_SIZE, sb) IN
          /\ Install(s)
          /\ mainpc' = IF s.rv # NULL THEN 1 ELSE -1
    /\ op' = "initialize"
    /\ mainlog' = <<>>
    /\ NoCollectHistory
    /\ UNCHANGED <<roots, etext, ret, units, calls, preFree, req, mallocs, stores>>

Malloc(n) ==
    /\ mallocs < MaxMallocs
    /\ mallocs' = mallocs + 1
    /\ \E sb \in SbrkOutcomes :
          LET s == gc_malloc(Globals, n, sb) IN
          /\ Install(s)
          /\ ret' = s.rv
          /\ calls' = s.calls
          /\ IF mainpc \in 1..3 /\ n = MainArgs[mainpc]
             THEN /\ mainpc' = mainpc + 1
                  /\ mainlog' = Append(mainlog, <<s.calls, s.rv>>)
             ELSE /\ mainpc' = -1
                  /\ mainlog' = <<>>
    /\ op' = "malloc"
    /\ units' = NumUnits(n)
    /\ req' = n
    /\ preFree' = FreeUnits(mem)
    /\ NoCollectHistory
    /\ UNCHANGED <<roots, etext, stores>>

Collect ==
    /\ LET g  == Globals
           s  == gc_collect(g, roots)
           U  == UsedBlocks(mem, usedp)
       IN  /\ Install(s)
           /\ pre' = {<<h, SizeOf(mem, h)>> : h \in U}
           /\ live' = Reachable(g, roots)
           /\ marked' = IF usedp = NULL THEN {}
                        ELSE MarkedBlocks(MarkPhase(g, roots), usedp)
           /\ swept' = s.swept
           /\ near' = LET D == RootReferenced(mem, U, DataWords(g, roots))
                      IN  D \cup UNION {Referenced(mem, U, c) : c \in D}
           /\ iters' = s.steps
    /\ op' = "collect"
    /\ consec' = IF consec < 2 THEN consec + 1 ELSE 2
    /\ IF mainpc = 4
       THEN mainpc' = 5 /\ mainlog' = mainlog
       ELSE mainpc' = -1 /\ mainlog' = <<>>
    /\ UNCHANGED <<roots, etext, ret, units, calls, preFree, req, mallocs, stores>>

\* the values the program stores: what gc_malloc returned for the blocks
\* now on the used list
Pointers == {h + HDR : h \in UsedBlocks(mem, usedp)}

OffMain == mainpc' = -1 /\ mainlog' = <<>>

NoMallocHistory ==
    ret' = NULL /\ units' = 0 /\ calls' = 0 /\ preFree' = 0 /\ req' = 0

\* the program stores a pointer into a global
StoreRoot(i, v) ==
    /\ stores < MaxStores
    /\ stores' = stores + 1
    /\ roots[i] # v
    /\ roots' = [roots EXCEPT ![i] = v]
    /\ op' = "store"
    /\ NoCollectHistory /\ NoMallocHistory /\ OffMain
    /\ UNCHANGED <<heap, etext, mallocs>>

\* the program stores a pointer into the first word of a block it allocated,
\* when the block has a payload at all
StorePayload(h, v) ==
    /\ stores < MaxStores
    /\ stores' = stores + 1
    /\ SizeOf(mem, h) > 1
    /\ Rd(mem, h + HDR) # v
    /\ mem' = Wr(mem, h + HDR, v)
    /\ op' = "store"
    /\ NoCollectHistory /\ NoMallocHistory /\ OffMain
    /\ UNCHANGED <<freep, usedp, brk, arenas, roots, etext, mallocs>>

Next ==
    \/ Initialize
    \/ \E n \in AllocSizes : Malloc(n)
    \/ Collect
    \/ \E i \in 1..NRoots, v \in Pointers : StoreRoot(i, v)
    \/ \E h \in UsedBlocks(mem, usedp), v \in Pointers : StorePayload(h, v)

Spec == Init /\ [][Next]_vars

\* the same program asking for sizes beyond one arena and at the top of size_t
NextWide ==
    \/ Initialize
    \/ \E n \in WideSizes : Malloc(n)
    \/ Collect
    \/ \E i \in 1..NRoots, v \in Pointers : StoreRoot(i, v)
    \/ \E h \in UsedBlocks(mem, usedp), v \in Pointers : StorePayload(h, v)

SpecWide == Init /\ [][NextWide]_vars

\* the program of Spec in any build
SpecBuild == InitBuild /\ [][Next]_vars

(* ------------------------------ claims -------------------------------- *)

Used == UsedBlocks(mem, usedp)

\* the blocks that were on the used list but not reachable when the last
\* gc_collect was entered, with their sizes
Garbage == {b \in pre : b[1] \notin live}

RECURSIVE SumPairs(_)
SumPairs(S) ==
    IF S = {} THEN 0
    ELSE LET b == CHOOSE x \in S : TRUE IN b[2] + SumPairs(S \ {b})

\* the byte ranges [header, header + size) of blocks a and b meet
Overlap(m, a, b) == a < Plus(b, SizeOf(m, b)) /\ b < Plus(a, SizeOf(m, a))

\* C1: a used block reachable from a root word through a chain of used
\* blocks is not handed to the free list by collect().
C1_ReachableNotSwept == op = "collect" => live \cap swept = {}

\* C2: the sweep removes only unmarked blocks: every block marked when the
\* sweep starts is on the used list when collect() returns, and usedp is
\* NULL only when every block was swept.
C2_MarkedStayUsed ==
    op = "collect" =>
        /\ marked \subseteq Used
        /\ usedp = NULL => swept = {b[1] : b \in pre}

\* C3: after every call the units obtained from the OS are exactly the units
\* of the free blocks plus the units of the used blocks, and no block is on
\* both lists.
C3_ListsPartitionArena ==
    /\ FreeUnits(mem) + UsedUnits(mem, usedp) = SumArenas(arenas)
    /\ FreeSet(mem) \cap Used = {}

\* C4: a used block that is not reachable is swept by the next collect(),
\* self-references and unreachable cycles included, and a gc_malloc for as
\* many units that follows is served without a call of more_core.
C4_GarbageReclaimed ==
    [][/\ op' = "collect" => {b[1] : b \in Garbage'} \subseteq swept'
       /\ (op = "collect" /\ op' = "malloc" /\ units' \in {b[2] : b \in Garbage})
             => (calls' = 0 /\ ret' # NULL)]_vars

\* a collect() kept a block and swept two blocks that refer to each other
C4_Witness ==
    /\ op = "collect"
    /\ live # {}
    /\ \E b, c \in Garbage :
          /\ b # c /\ {b[1], c[1]} \subseteq swept
          /\ Rd(mem, b[1] + HDR) = c[1] + HDR
          /\ Rd(mem, c[1] + HDR) = b[1] + HDR

\* C5: the ranges [header, header + size) of the blocks on the used list are
\* pairwise disjoint, and disjoint from every block on the free list.
C5_BlocksDisjoint ==
    \A a \in Used : \A b \in (Used \cup FreeSet(mem)) \ {a} : ~Overlap(mem, a, b)

\* three blocks are allocated next to a free block
C5_Witness ==
    /\ Cardinality(Used) = 3
    /\ \E f \in FreeSet(mem) : \E a \in Used : Plus(f, SizeOf(mem, f)) = a

\* the free list is one cycle through base in ascending address order
FreeListOrdered(m) ==
    LET f == FreeNodes(m) IN
    /\ f[1] = BASE
    /\ NextOf(m, f[Len(f)]) = BASE
    /\ \A i \in 1..(Len(f) - 1) : f[i] < f[i + 1]

\* no free block ends where another free block starts
FreeListCoalesced(m) ==
    \A a, b \in FreeSet(m) : Plus(a, SizeOf(m, a)) # b \/ a = b

\* C6: after every mutation the free list is one cycle through base in
\* strictly ascending address order and maximally coalesced; what a collect()
\* frees is added to the free capacity unit for unit, so that two adjacent
\* freed blocks make one free block of the sum of their sizes.
C6_FreeListOrderedCoalesced ==
    [][/\ FreeListOrdered(mem')
       /\ FreeListCoalesced(mem')
       /\ op' = "collect" =>
             FreeUnits(mem') =
                FreeUnits(mem) + SumPairs({b \in pre' : b[1] \in swept'})]_vars

\* a collect() freed two adjacent blocks next to a free block, and the free
\* list is base and one block
C6_Witness ==
    /\ op = "collect"
    /\ \E a, b \in pre :
          /\ {a[1], b[1]} \subseteq swept
          /\ Plus(a[1], a[2]) = b[1]
    /\ Len(FreeNodes(mem)) = 2
    /\ usedp # NULL

\* the free list as the set of its blocks with their sizes
FreeContents(m) == {<<h, SizeOf(m, h)>> : h \in FreeSet(m)}

\* C7: a second collect() in a row leaves the used list and the free list
\* as the first one left them.
C7_CollectIdempotent ==
    [][(op = "collect" /\ op' = "collect") =>
          /\ UsedBlocks(mem', usedp') = UsedBlocks(mem, usedp)
          /\ FreeContents(mem') = FreeContents(mem)]_vars

\* two collect() calls in a row, with blocks kept and blocks freed
C7_Witness ==
    /\ consec = 2
    /\ Cardinality(Used) >= 2
    /\ Len(FreeNodes(mem)) > 2

\* C8 as stated: gc_malloc(n), the block unreachable, collect(): the free
\* capacity is what it was before the gc_malloc.
C8_RoundTripExact ==
    [][(op = "malloc" /\ ret # NULL /\ op' = "collect" /\ (ret - HDR) \notin live')
          => FreeUnits(mem') = preFree]_vars

\* C8 amended: the free capacity is then at least what it was before the
\* gc_malloc, and exactly that when the gc_malloc did not call more_core and
\* the collect() swept no other block.
C8_RoundTrip ==
    [][(op = "malloc" /\ ret # NULL /\ op' = "collect" /\ (ret - HDR) \notin live')
          => /\ ret - HDR \in swept'
             /\ FreeUnits(mem') >= preFree
             /\ (calls = 0 /\ swept' = {ret - HDR}) => FreeUnits(mem') = preFree]_vars

\* a gc_malloc served from the free list was undone by the collect() after
\* it, which kept another block
C8_Witness ==
    /\ op = "collect" /\ consec = 1
    /\ ret # NULL /\ calls = 0
    /\ swept = {ret - HDR}
    /\ usedp # NULL
    /\ FreeUnits(mem) = preFree

\* every gc_malloc of main returned a block
MainAllReturned == \A i \in 1..Len(mainlog) : mainlog[i][2] # NULL

\* C9 as stated: of main's calls gc_malloc(16), gc_malloc(4080) and
\* gc_malloc(32) after initialize(), the first two do not grow the arena
\* and the third does.
C9_ThirdGrows ==
    mainpc = 4 =>
        /\ mainlog[1][1] = 0
        /\ mainlog[2][1] = 0
        /\ mainlog[3][1] > 0

\* C9 amended: the first and the third are served from the free list without
\* a call of more_core, and the second is the one that calls more_core.
C9_SecondGrows ==
    mainpc = 4 =>
        /\ mainlog[1][1] = 0 /\ mainlog[1][2] # NULL
        /\ mainlog[2][1] = 1
        /\ mainlog[3][1] = 0 /\ mainlog[3][2] # NULL

\* main's three gc_malloc calls have returned three blocks
C9_Witness == mainpc = 4 /\ MainAllReturned /\ Cardinality(Used) = 3

\* the regions obtained from sbrk make one range from HEAP_START
Contiguous == brk - HEAP_START = SumArenas(arenas) * HDR

\* C10: after main's three gc_malloc calls have returned blocks and no root
\* refers to a block, collect() frees all three, the used list is empty, and
\* with contiguous growth the free list is base and one block that spans all
\* memory obtained from the OS.
C10_MainAllReclaimed ==
    (mainpc = 5 /\ MainAllReturned /\ live = {}) =>
        /\ usedp = NULL
        /\ Cardinality(swept) = 3
        /\ FreeUnits(mem) = SumArenas(arenas)
        /\ Contiguous =>
              /\ FreeNodes(mem) = <<BASE, HEAP_START>>
              /\ SizeOf(mem, HEAP_START) = SumArenas(arenas)

\* main has run to its end with both regions contiguous
C10_Witness ==
    /\ mainpc = 5 /\ MainAllReturned /\ live = {}
    /\ Cardinality(arenas) = 2
    /\ Contiguous

\* C11: a gc_malloc that returns NULL, which it does only when sbrk refused
\* the one growth it asked for, leaves every word of the heap, both lists,
\* the cursor freep, the used head and the break exactly as they were
C11_RefusedGrowthChangesNothing ==
    [][(op' = "malloc" /\ ret' = NULL) =>
          /\ calls' = 1
          /\ UNCHANGED <<mem, freep, usedp, brk, arenas>>]_vars

\* C12: a successful gc_malloc(alloc_size), for every alloc_size > 0 of
\* size_t, returns a block whose size field is at least
\* ceil(alloc_size / sizeof(header_t)) + 1 units, so that the payload holds
\* alloc_size bytes
C12_SizeCoversRequest ==
    (op = "malloc" /\ ret # NULL /\ req > 0) =>
        SizeOf(mem, ret - HDR) >= (req + HDR - 1) \div HDR + 1

\* the used list is one cycle: following the untagged links from any of its
\* blocks visits every block once and comes back
UsedIsCycle(m, up) ==
    \/ up = NULL
    \/ LET U == UsedBlocks(m, up) IN
       \A h \in U :
          /\ UNTAG(NextOf(m, h)) \in U
          /\ \A g \in U : UNTAG(NextOf(m, g)) = UNTAG(NextOf(m, h)) => g = h

\* C13: gc_collect terminates from every reachable state. The traversals of
\* scan_region and scan_heap follow untagged links until they are back at
\* their starting block: they end because the used list is one cycle, before
\* and after the marking phases. The collection loop passes its label at
\* most once per block the used list had, also when it frees every block
\* and when it frees the head usedp
C13_CollectTerminates ==
    /\ UsedIsCycle(mem, usedp)
    /\ usedp # NULL => UsedIsCycle(MarkPhase(Globals, roots), usedp)
    /\ op = "collect" => iters <= Cardinality(pre)

\* a collect that freed every block of a list of three, the head included
C13_Witness ==
    /\ op = "collect"
    /\ Cardinality(pre) = 3
    /\ swept = {b[1] : b \in pre}
    /\ iters = 3
    /\ usedp = NULL

\* C14: a gc_malloc asks for growth only when no block of the free list has
\* num_units units, asks at most once, and after a growth that sbrk granted
\* returns a block
C14_GrowthOnceAfterFullCircuit ==
    [][op' = "malloc" =>
          /\ calls' \in {0, 1}
          /\ calls' = 1 <=> \A f \in FreeSet(mem) : SizeOf(mem, f) < units'
          /\ (calls' = 1 /\ arenas' # arenas) => ret' # NULL
          /\ ret' = NULL => arenas' = arenas]_vars

\* the globals on which the last search of a gc_malloc step ran: those at
\* the call, or those after the growth the call was granted
SearchState ==
    IF arenas' = arenas THEN Globals
    ELSE LET nb == (units' * HDR) % SIZE_MOD
             sb == CHOOSE x \in SbrkOutcomes :
                       more_core(Globals, nb, x).arenas = arenas'
         IN  more_core(Globals, nb, sb)

\* the sequence without the element x
Without(seq, x) == SelectSeq(seq, LAMBDA y : y # x)

\* C15: a gc_malloc that selects a free block p larger than num_units
\* leaves p where it was, at its place in the free list with every link as
\* before, lowers p's size by exactly num_units and hands out the tail at
\* p + remaining size with size num_units; one that selects a block of
\* exactly num_units unlinks the whole block; no other free block changes
C15_SplitTakesTail ==
    [][(op' = "malloc" /\ ret' # NULL /\ calls' <= 1) =>
          LET m0 == SearchState.mem
              F0 == FreeNodes(m0)
              q  == ret' - HDR
              n  == units'
          IN  \/ /\ q \in FreeSet(m0)
                 /\ SizeOf(m0, q) = n
                 /\ FreeNodes(mem') = Without(F0, q)
                 /\ \A f \in FreeSet(mem') :
                        /\ SizeOf(mem', f) = SizeOf(m0, f)
                        /\ NextOf(mem', f) =
                              IF NextOf(m0, f) = q THEN NextOf(m0, q)
                              ELSE NextOf(m0, f)
              \/ \E p \in FreeSet(m0) :
                 /\ SizeOf(m0, p) > n
                 /\ q = p + (SizeOf(m0, p) - n) * HDR
                 /\ SizeOf(mem', q) = n
                 /\ SizeOf(mem', p) = SizeOf(m0, p) - n
                 /\ FreeNodes(mem') = F0
                 /\ \A f \in FreeSet(m0) :
                        /\ NextOf(mem', f) = NextOf(m0, f)
                        /\ f # p => SizeOf(mem', f) = SizeOf(m0, f)]_vars

\* a split without growth while another free block is on the list: the
\* block handed out starts where a free block ends
C15_Witness ==
    /\ op = "malloc" /\ ret # NULL /\ calls = 0
    /\ Len(FreeNodes(mem)) >= 3
    /\ \E f \in FreeSet(mem) : f + SizeOf(mem, f) * HDR = ret - HDR

\* the first of the k nodes from p on, in list order, with at least n units
RECURSIVE FirstFit(_, _, _, _)
FirstFit(m, p, n, k) ==
    IF k = 0 THEN NULL
    ELSE IF SizeOf(m, p) >= n THEN p
    ELSE FirstFit(m, NextOf(m, p), n, k - 1)

\* the free block of m from which the block q was taken
TakenFrom(m, q) ==
    IF q \in FreeSet(m) THEN q
    ELSE CHOOSE f \in FreeSet(m) : f < q /\ q < f + SizeOf(m, f) * HDR

\* C16: next fit. The block a gc_malloc selects is the first one with at
\* least num_units units in the circular order of the free list that starts
\* at the node after the cursor freep and ends at freep; on return freep is
\* the free-list node that preceded the selected block
C16_NextFit ==
    [][(op' = "malloc" /\ ret' # NULL /\ calls' <= 1) =>
          LET s0 == SearchState
              m0 == s0.mem
              p  == TakenFrom(m0, ret' - HDR)
          IN  /\ s0.freep \in FreeSet(m0)
              /\ p = FirstFit(m0, NextOf(m0, s0.freep), units',
                              Len(FreeNodes(m0)))
              /\ freep' \in FreeSet(m0)
              /\ NextOf(m0, freep') = p
              /\ freep' \in FreeSet(mem')]_vars

\* a gc_malloc without growth that passed over a fitting block at a lower
\* address, which a first fit from base would have taken
C16_Witness ==
    /\ op = "malloc" /\ ret # NULL /\ calls = 0
    /\ \E f \in FreeSet(mem) :
          /\ f < ret - HDR
          /\ SizeOf(mem, f) >= units
          /\ f + SizeOf(mem, f) * HDR # ret - HDR

\* C17: between calls the mark is clear on every block of the free list and
\* on every block of the used list, the block a gc_malloc has just inserted
\* included
C17_MarksClearBetweenCalls ==
    /\ \A h \in Used \cup FreeSet(mem) : ~Tagged(NextOf(mem, h))
    /\ (op = "malloc" /\ ret # NULL) =>
          /\ ret - HDR \in Used
          /\ ~Tagged(NextOf(mem, ret - HDR))

\* a collect that had marked two blocks, kept them and freed another
C17_Witness ==
    /\ op = "collect"
    /\ Cardinality(marked) >= 2
    /\ marked \subseteq Used
    /\ swept # {}

\* memory b is memory a except for marks set on blocks of the used list
OnlyMarksSet(a, b, up) ==
    \A x \in DOMAIN a \cup DOMAIN b :
        \/ Rd(b, x) = Rd(a, x)
        \/ /\ x - WORD \in UsedBlocks(a, up)
           /\ ~Tagged(Rd(a, x))
           /\ Rd(b, x) = Rd(a, x) + 1

\* C18: scan_region and scan_heap change nothing but marks. From any state,
\* each of them leaves every word of memory as it was except that links of
\* used blocks get the mark: the members of the used list and their order
\* through untagged links, all sizes and the free list are the same, no mark
\* is cleared, and marking a marked block again changes nothing
C18_MarkingOnlySetsMarks ==
    usedp # NULL =>
        LET m1 == scan_region(mem, usedp, ScannedWords(Globals, roots), 1)
            m2 == scan_heap(m1, usedp)
        IN  /\ OnlyMarksSet(mem, m1, usedp)
            /\ OnlyMarksSet(m1, m2, usedp)
            /\ UsedBlocks(m2, usedp) = Used
            /\ \A h \in Used : UNTAG(NextOf(m2, h)) = UNTAG(NextOf(mem, h))
            /\ FreeNodes(m2) = FreeNodes(mem)
            /\ \A h \in MarkedBlocks(m2, usedp) : MarkHeader(m2, h) = m2

\* a collect that marked a block from a global and met it again in the
\* payload of another marked block
C18_Witness ==
    /\ op = "collect"
    /\ \E h \in marked, c \in marked :
          /\ h # c
          /\ h \in RootReferenced(mem, Used, roots)
          /\ c \in Referenced(mem, Used, h)
          /\ h \in Referenced(mem, Used, c)

\* C19: whatever the order of the used list, gc_collect hands to
\* add_to_free_list no used block to whose payload a word of the data
\* segment points, and no used block to whose payload a payload word of
\* such a block points
C19_NearBlocksRetained ==
    op = "collect" => near \cap swept = {}

\* C20: after every call freep is a node of the free list, never a block in
\* use or one absorbed by coalescing; base has size zero, is on the circular
\* free list, is not on the used list and is never what gc_malloc returns
C20_CursorOnFreeList ==
    /\ freep \in FreeSet(mem)
    /\ freep \notin Used
    /\ SizeOf(mem, BASE) = 0
    /\ NextOf(mem, FreeNodes(mem)[Len(FreeNodes(mem))]) = BASE
    /\ BASE \notin Used
    /\ (op = "malloc" /\ ret # NULL) => ret - HDR # BASE

\* a collect after which a freed block is no free-list node, having been
\* absorbed by its neighbour, and the cursor is on a block other than base
C20_Witness ==
    /\ op = "collect"
    /\ \E h \in swept : h \notin FreeSet(mem)
    /\ freep # BASE

====
